---- MODULE Spec2Model ----
(***************************************************************************)
(* Model of the MurciaLab/seguimiento timeline application.                *)
(*                                                                         *)
(* The repository holds two generations of the application controller:    *)
(*   build "app_js"   : src/js/app.js with                                 *)
(*                      src/js/components/TimelineRenderer.js              *)
(*   build "part_001" : src/unnamed/part_001 (lines 1-876, the version     *)
(*                      with appState, refreshData and translated texts)   *)
(*                      with the renderer of src/unnamed/part_004          *)
(* Both use src/js/components/DataFetcher.js and                           *)
(* src/js/components/ProjectSelector.js.  The variable build fixes which   *)
(* generation a behaviour runs.                                            *)
(*                                                                         *)
(* Every method is an operator from a world record (the fields of the      *)
(* objects, the DOM elements the code writes, the requests in flight) to   *)
(* the world after the method's synchronous part; an action commits the    *)
(* world reached by a whole handler or by a whole await continuation.      *)
(* The spreadsheet parser and the vis-timeline widget are external: the    *)
(* parser's outcome is an input of the continuation, the widget is         *)
(* assumed to construct and to accept items without throwing.              *)
(***************************************************************************)
EXTENDS Integers, Sequences, FiniteSets, TLC

VARIABLES
  build,   \* which generation of the controller and renderer runs
  app,     \* TimelineApp fields: currentProject, isLoading, appState
  sel,     \* ProjectSelector fields: projects, selectedProject, and its <select>
  ren,     \* TimelineRenderer fields: timeline, dataset
  dom,     \* #timeline-container, its loading overlay, #error-message, #user-feedback
  net,     \* requests in flight: project sheets, the directory sheet
  vIn,     \* input sheet of the column validation runs
  vOut     \* result of the last fetch of the column validation runs

vars == <<build, app, sel, ren, dom, net, vIn, vOut>>

(***************************************************************************)
(* Bounds                                                                  *)
(***************************************************************************)
MaxRows == 2        \* rows of a project sheet in the controller runs
MaxRefresh == 1     \* refreshData calls whose directory fetch is in flight
MaxPending == 2     \* cap on overlapping fetches of one project sheet
MaxValRows == 2     \* rows of a sheet in the column validation runs

Builds == {"app_js", "part_001"}

NoProject == "null"            \* JavaScript null / undefined
ProjectIds == {"1", "2"}       \* project_id values of the directory sheet
UnknownId == "9"               \* an id no directory row carries

(***************************************************************************)
(* Strings                                                                 *)
(***************************************************************************)
\* String.prototype.includes
Includes(s, sub) ==
  \E i \in 1..(Len(s) - Len(sub) + 1) : SubSeq(s, i, i + Len(sub) - 1) = sub

\* Array.prototype.join
RECURSIVE Join(_, _)
Join(seq, sep) ==
  IF Len(seq) = 0 THEN ""
  ELSE IF Len(seq) = 1 THEN seq[1]
  ELSE seq[1] \o sep \o Join(Tail(seq), sep)


(***************************************************************************)
(* DataFetcher                                                             *)
(***************************************************************************)
listRequiredColumns == <<"project_id", "project_name", "category">>
listOptionalColumns == <<"completed_date">>
timelineRequiredColumns ==
  <<"date_announced", "news_link", "headline", "description", "party">>

Range(seq) == {seq[i] : i \in 1..Len(seq)}

\* a validation that reports every required column, present or not
missingColumns_AllRequired(required, first) == required

\* requiredColumns.filter(col => !(col in first))
missingColumns(required, first) ==
  SelectSeq(required, LAMBDA col : col \notin first.cols)

\* A parser outcome is [ok, rows, msg]: the rows parse() resolves with, or the
\* message of the error it rejects with.  A fetch result has the same shape.
Returned(rows) == [ok |-> TRUE, rows |-> rows, msg |-> ""]
Thrown(msg) == [ok |-> FALSE, rows |-> <<>>, msg |-> msg]

fetchProjectList_try(parsed) ==
  IF ~parsed.ok THEN Thrown(parsed.msg)
  ELSE IF Len(parsed.rows) > 0
          /\ Len(missingColumns(listRequiredColumns, parsed.rows[1])) > 0
       THEN Thrown("Missing required columns in main sheet: "
                   \o Join(missingColumns(listRequiredColumns, parsed.rows[1]), ", "))
       ELSE Returned(parsed.rows)

fetchProjectList(parsed) ==
  LET r == fetchProjectList_try(parsed) IN
  IF r.ok THEN r ELSE Thrown("Failed to fetch project list: " \o r.msg)

fetchProjectTimeline_try(projectId, parsed) ==
  IF ~parsed.ok THEN Thrown(parsed.msg)
  ELSE IF Len(parsed.rows) > 0
          /\ Len(missingColumns(timelineRequiredColumns, parsed.rows[1])) > 0
       THEN Thrown("Missing required columns in project sheet " \o projectId \o ": "
                   \o Join(missingColumns(timelineRequiredColumns, parsed.rows[1]), ", "))
       ELSE Returned(parsed.rows)

\* the test of the catch block for a sheet that does not exist
\* a test of the parser's message that knows only one of its two wordings
sheetMissingSignal_NotFoundOnly(msg) == Includes(msg, "not found")

sheetMissingSignal(msg) == Includes(msg, "Unable to parse") \/ Includes(msg, "not found")

\* a fetch that answers every failure with an empty sheet
fetchProjectTimeline_Swallowing(projectId, parsed) ==
  LET r == fetchProjectTimeline_try(projectId, parsed) IN
  IF r.ok THEN r ELSE Returned(<<>>)

fetchProjectTimeline(projectId, parsed) ==
  LET r == fetchProjectTimeline_try(projectId, parsed) IN
  IF r.ok THEN r
  ELSE IF sheetMissingSignal(r.msg)
       THEN Thrown("Project sheet \"" \o projectId \o "\" does not exist or is not accessible")
       ELSE Thrown("Failed to fetch timeline for project " \o projectId \o ": " \o r.msg)

\* parseDate succeeds on the row's date_announced
dateParses(row) == "date_announced" \in row.cols /\ row.dateOk

\* A timeline item: the row it was made from and whether it carries a start
Item(projectId, index, hasStart) ==
  [project |-> projectId, index |-> index, start |-> hasStart]

\* a mapper that numbers every item it returns alike
transformToTimelineFormat_SharedId(projectId, rawData) ==
  LET idx == SelectSeq([i \in 1..Len(rawData) |-> i], LAMBDA i : dateParses(rawData[i]))
  IN [k \in 1..Len(idx) |-> Item(projectId, 0, TRUE)]

\* a mapper that gives the batch up at the first row it cannot map
transformToTimelineFormat_Aborting(projectId, rawData) ==
  IF \A i \in 1..Len(rawData) : dateParses(rawData[i])
  THEN [i \in 1..Len(rawData) |-> Item(projectId, i - 1, TRUE)]
  ELSE <<>>

\* transformToTimelineFormat: map with index, then filter(item => item !== null)
transformToTimelineFormat(projectId, rawData) ==
  LET idx == SelectSeq([i \in 1..Len(rawData) |-> i], LAMBDA i : dateParses(rawData[i]))
  IN [k \in 1..Len(idx) |-> Item(projectId, idx[k] - 1, TRUE)]

\* the raw rows handed to the renderer unmapped: objects without a start
rawItems(projectId, rawData) ==
  [i \in 1..Len(rawData) |-> Item(projectId, i - 1, FALSE)]

(***************************************************************************)
(* Inputs: what the spreadsheet parser resolves or rejects with            *)
(***************************************************************************)
AllTimelineColumns == Range(timelineRequiredColumns)
AllListColumns == Range(listRequiredColumns) \cup Range(listOptionalColumns)

GoodRow == [cols |-> AllTimelineColumns, dateOk |-> TRUE]
BadDateRow == [cols |-> AllTimelineColumns, dateOk |-> FALSE]
NoPartyRow == [cols |-> AllTimelineColumns \ {"party"}, dateOk |-> TRUE]
RowKinds == {GoodRow, BadDateRow, NoPartyRow}

SeqsUpTo(S, n) == UNION {[1..k -> S] : k \in 0..n}

\* messages a rejected parse() carries: two that signal a missing sheet or
\* tab, two of a failed network request
SheetMissingMessages == {"Unable to parse sheet", "Sheet not found"}
NetworkMessages == {"Failed to fetch", "NetworkError when attempting to fetch resource."}

TimelineOutcomes ==
  {Returned(rows) : rows \in SeqsUpTo(RowKinds, MaxRows)}
    \cup {Thrown(msg) : msg \in SheetMissingMessages \cup NetworkMessages}

ProjectRow(id, cols) == [cols |-> cols, project_id |-> id]

DirectoryOutcomes ==
  { Returned(<<ProjectRow("1", AllListColumns),
               ProjectRow("2", Range(listRequiredColumns))>>),
    Returned(<<>>),
    Returned(<<ProjectRow("1", AllListColumns \ {"category"})>>),
    Thrown("Failed to fetch") }

\* fetchProjectTimeline on every project and parser outcome of the runs,
\* computed once
fetchProjectTimeline_results ==
  [projectId \in ProjectIds |->
     [parsed \in TimelineOutcomes |-> fetchProjectTimeline(projectId, parsed)]]

(***************************************************************************)
(* The world the methods act on                                            *)
(***************************************************************************)
World == [app |-> app, sel |-> sel, ren |-> ren, dom |-> dom, net |-> net]

Commit(w) ==
  /\ app' = w.app
  /\ sel' = w.sel
  /\ ren' = w.ren
  /\ dom' = w.dom
  /\ net' = w.net

\* element.innerHTML = ... on #timeline-container: the children, the loading
\* overlay among them, are replaced
setContainerHTML(w, content) ==
  [w EXCEPT !.dom.container = content, !.dom.overlay = FALSE]

Hidden == [shown |-> FALSE, type |-> "none", text |-> ""]
Shown(type, text) == [shown |-> TRUE, type |-> type, text |-> text]

(***************************************************************************)
(* TimelineRenderer, src/js/components/TimelineRenderer.js                 *)
(***************************************************************************)
\* validateTimelineItems: the items that carry a start, in order
validateTimelineItems(items) == SelectSeq(items, LAMBDA item : item.start)

initializeTimeline(w) ==
  [setContainerHTML(w, "widget") EXCEPT !.ren.timeline = TRUE]

showEmptyTimeline(w) == setContainerHTML(w, "rendererEmpty")

clearContainer(w) ==
  LET w1 == [w EXCEPT !.ren.dataset = <<>>] IN
  IF ~w1.ren.timeline THEN setContainerHTML(w1, "select") ELSE w1

updateData(w, newData) ==
  LET w1 == IF ~w.ren.timeline THEN initializeTimeline(w) ELSE w
      validItems == validateTimelineItems(newData)
      w2 == [w1 EXCEPT !.ren.dataset = <<>>]
  IN IF Len(validItems) = 0
     THEN showEmptyTimeline(w2)
     ELSE [w2 EXCEPT !.ren.dataset = validItems]

(***************************************************************************)
(* TimelineRenderer, src/unnamed/part_004                                  *)
(***************************************************************************)
Part004_clearContainer(w) ==
  LET w1 == setContainerHTML([w EXCEPT !.ren.dataset = <<>>], "blank") IN
  IF ~w1.ren.timeline THEN setContainerHTML(w1, "select") ELSE w1

Part004_updateData(w, newData) ==
  LET validItems == validateTimelineItems(newData) IN
  IF Len(validItems) = 0
  THEN showEmptyTimeline([w EXCEPT !.ren.timeline = FALSE])
  ELSE LET w1 == IF ~w.ren.timeline \/ w.dom.container # "widget"
                 THEN initializeTimeline(w) ELSE w
       IN [w1 EXCEPT !.ren.dataset = validItems]

(***************************************************************************)
(* What the visitor sees                                                   *)
(***************************************************************************)
\* the items on screen: the dataset, while the widget's DOM is in the container
DisplayedItems(w) ==
  IF w.dom.container = "widget" THEN Range(w.ren.dataset) ELSE {}

DisplayedProjects(w) == {item.project : item \in DisplayedItems(w)}

(***************************************************************************)
(* ProjectSelector, src/js/components/ProjectSelector.js                   *)
(***************************************************************************)
\* this.projects.find(p => String(p.project_id) === String(projectId))
findProject(projects, projectId) ==
  IF \E i \in 1..Len(projects) : projects[i].project_id = projectId
  THEN projectId ELSE NoProject

\* the options are rebuilt, which also replaces the error entry of showError
populateProjects(w, projects) ==
  [w EXCEPT !.sel.projects = projects, !.sel.error = FALSE]

Selector_showLoading(w) == [w EXCEPT !.sel.loading = TRUE]
Selector_hideLoading(w) == [w EXCEPT !.sel.loading = FALSE]

Selector_showError(w) == Selector_hideLoading([w EXCEPT !.sel.error = TRUE])

(***************************************************************************)
(* TimelineApp, src/js/app.js                                              *)
(***************************************************************************)
\* a guard that tests only the project, and one that tests only the flag
loadGuard_SameProjectOnly(isLoading, currentProject, project) ==
  currentProject # NoProject /\ currentProject = project

loadGuard_FlagOnly(isLoading, currentProject, project) == isLoading

\* the test that keeps handleProjectSelection from starting a load
loadGuard(isLoading, currentProject, project) ==
  isLoading \/ (currentProject # NoProject /\ currentProject = project)

hideError(w) == [w EXCEPT !.dom.errorMessage = Hidden]

showError(w, text) == [w EXCEPT !.dom.errorMessage = Shown("error", text)]

showTimelineLoading(w, show) ==
  IF show THEN setContainerHTML(w, "loading") ELSE w

\* an empty batch that leaves the container as it is
App_showEmptyTimeline_Skipped(w) == w

App_showEmptyTimeline(w) == setContainerHTML(w, "empty")

\* an error state without the Retry button
showTimelineError_NoButton(w) == setContainerHTML(w, "errorNoRetry")

showTimelineError(w) == setContainerHTML(w, "error")

clearTimeline(w) == clearContainer(w)

\* the request of fetchProjectTimeline leaves: parse() is awaited
issueTimelineFetch(w, project) ==
  [w EXCEPT !.net.timeline[project] = @ + 1]

\* handleProjectSelection up to its await
handleProjectSelection(w, project) ==
  LET w0 == hideError(w) IN
  IF project = NoProject
  THEN clearTimeline([w0 EXCEPT !.app.currentProject = NoProject])
  ELSE IF loadGuard(w0.app.isLoading, w0.app.currentProject, project)
  THEN w0
  ELSE issueTimelineFetch(
         showTimelineLoading(
           [w0 EXCEPT !.app.isLoading = TRUE, !.app.currentProject = project],
           TRUE),
         project)

\* a continuation without the finally block: a rejected load leaves the flag set
handleProjectSelection_resume_NoFinally(w, project, parsed) ==
  LET w0 == [w EXCEPT !.net.timeline[project] = @ - 1]
      r == fetchProjectTimeline_results[project][parsed]
  IN IF r.ok
     THEN LET timelineData == rawItems(project, r.rows)
              shown == IF Len(timelineData) = 0
                       THEN App_showEmptyTimeline(w0)
                       ELSE updateData(w0, timelineData)
          IN [showTimelineLoading(shown, FALSE) EXCEPT !.app.isLoading = FALSE]
     ELSE showTimelineError(
            showError(showTimelineLoading(w0, FALSE), "failedToLoadTimeline"))

\* handleProjectSelection from the await on, for the outcome of parse()
handleProjectSelection_resume(w, project, parsed) ==
  LET w0 == [w EXCEPT !.net.timeline[project] = @ - 1]
      r == fetchProjectTimeline_results[project][parsed]
      done == IF r.ok
              THEN LET timelineData == rawItems(project, r.rows)
                       shown == IF Len(timelineData) = 0
                                THEN App_showEmptyTimeline(w0)
                                ELSE updateData(w0, timelineData)
                   IN showTimelineLoading(shown, FALSE)
              ELSE showTimelineError(
                     showError(showTimelineLoading(w0, FALSE), "failedToLoadTimeline"))
  IN [done EXCEPT !.app.isLoading = FALSE]

\* loadProjects from its await on, for the outcome of parse()
loadProjects_resume(w, parsed) ==
  LET r == fetchProjectList(parsed) IN
  IF r.ok
  THEN Selector_hideLoading(populateProjects(w, r.rows))
  ELSE showError(Selector_showError(w), "failedToLoadProjects")

(***************************************************************************)
(* TimelineApp, src/unnamed/part_001 lines 1-876                           *)
(***************************************************************************)
updateAppState(w, view) == [w EXCEPT !.app.appState.currentView = view]

showUserFeedback(w, type, text) ==
  [w EXCEPT !.dom.userFeedback = Shown(type, text)]

Part001_showError(w, text) == showUserFeedback(w, "error", text)

\* the loading overlay is appended unless one is there, or removed
Part001_showTimelineLoading(w, show) == [w EXCEPT !.dom.overlay = show]

showLoadingIndicator(w, show) == [w EXCEPT !.dom.globalLoading = show]

\* the catch block's choice of the message shown to the visitor
classifyError(msg) ==
  IF Includes(msg, "not found") \/ Includes(msg, "does not exist")
  THEN Shown("warning", "projectNotFound")
  ELSE IF Includes(msg, "network") \/ Includes(msg, "fetch")
  THEN Shown("error", "networkError")
  ELSE IF Includes(msg, "parse") \/ Includes(msg, "format")
  THEN Shown("error", "dataFormatError")
  ELSE Shown("error", "failedToLoadTimeline")

\* classifyError on every message fetchProjectTimeline fails with, computed once
classifyError_results ==
  [projectId \in ProjectIds |->
     [parsed \in TimelineOutcomes |->
        classifyError(fetchProjectTimeline_results[projectId][parsed].msg)]]

Part001_handleProjectSelection(w, project) ==
  LET w0 == hideError(w) IN
  IF project = NoProject
  THEN updateAppState([w0 EXCEPT !.app.currentProject = NoProject], "selector")
  ELSE IF loadGuard(w0.app.isLoading, w0.app.currentProject, project)
  THEN w0
  ELSE LET w1 == updateAppState(
                   [w0 EXCEPT !.app.isLoading = TRUE, !.app.currentProject = project],
                   "timeline")
           w2 == Part004_clearContainer(w1)
           w3 == showLoadingIndicator(Part001_showTimelineLoading(w2, TRUE), TRUE)
       IN issueTimelineFetch(w3, project)

Part001_handleProjectSelection_resume(w, project, parsed) ==
  LET w0 == [w EXCEPT !.net.timeline[project] = @ - 1]
      r == fetchProjectTimeline_results[project][parsed]
      hideLoading(x) == showLoadingIndicator(Part001_showTimelineLoading(x, FALSE), FALSE)
      done == IF r.ok
              THEN LET timelineData == transformToTimelineFormat(project, r.rows)
                       shown == IF Len(timelineData) = 0
                                THEN showUserFeedback(App_showEmptyTimeline(w0),
                                                      "info", "noMediaEvents")
                                ELSE showUserFeedback(Part004_updateData(w0, timelineData),
                                                      "success", "loaded")
                   IN hideLoading(shown)
              ELSE LET c == classifyError_results[project][parsed] IN
                   showTimelineError(showUserFeedback(hideLoading(w0), c.type, c.text))
  IN [done EXCEPT !.app.isLoading = FALSE]

Part001_loadProjects_resume(w, parsed) ==
  LET r == fetchProjectList(parsed) IN
  IF r.ok
  THEN Selector_hideLoading(populateProjects(w, r.rows))
  ELSE Part001_showError(Selector_showError(w), "failedToLoadProjects")

\* init from the await of loadProjects on
Part001_init_resume(w, parsed) ==
  LET w1 == Part001_loadProjects_resume(w, parsed) IN
  [w1 EXCEPT !.app.appState.hasData = TRUE, !.app.appState.initialized = TRUE]

\* refreshData up to the await inside loadProjects
refreshData(w) ==
  IF ~w.app.appState.initialized THEN w
  ELSE LET w1 == Selector_showLoading(Part001_showTimelineLoading(w, TRUE)) IN
       [w1 EXCEPT !.net.refresh = @ + 1]

\* refreshData from that await on; when the reload of the current project
\* starts a fetch, the method waits for it and the trailing removal of the
\* overlay is the one that load performs itself
refreshData_resume(w, parsed) ==
  LET w0 == [w EXCEPT !.net.refresh = @ - 1]
      w1 == Part001_loadProjects_resume(w0, parsed)
      w2 == IF w1.app.currentProject # NoProject
            THEN Part001_handleProjectSelection(w1, w1.app.currentProject)
            ELSE w1
  IN IF w2.net.timeline = w1.net.timeline
     THEN Part001_showTimelineLoading(w2, FALSE)
     ELSE w2

\* the callback the controller hands to the selector
onProjectChange(w, project) ==
  IF build = "app_js"
  THEN handleProjectSelection(w, project)
  ELSE Part001_handleProjectSelection(w, project)

\* ProjectSelector.handleProjectSelection: the change event of the <select>
\* and setSelectedProject (TimelineApp.switchToProject) both end here
Selector_handleProjectSelection(w, projectId) ==
  IF projectId = NoProject
  THEN onProjectChange([w EXCEPT !.sel.selectedProject = NoProject], NoProject)
  ELSE LET found == findProject(w.sel.projects, projectId)
           w1 == [w EXCEPT !.sel.selectedProject = found]
       IN IF found # NoProject THEN onProjectChange(w1, found) ELSE w1


(***************************************************************************)
(* The application: initial state and steps                                *)
(***************************************************************************)
NoInput == [which |-> "none", rows |-> <<>>]
NoOutput == [done |-> FALSE, ok |-> FALSE, rows |-> <<>>, msg |-> ""]

\* the state after new TimelineApp() and init() up to the await of the
\* directory sheet: the selector shows its loading indicator
InitialWorld ==
  [app |-> [currentProject |-> NoProject, isLoading |-> FALSE,
            appState |-> [initialized |-> FALSE, hasData |-> FALSE,
                          currentView |-> "selector"]],
   sel |-> [projects |-> <<>>, selectedProject |-> NoProject,
            loading |-> TRUE, error |-> FALSE],
   ren |-> [timeline |-> FALSE, dataset |-> <<>>],
   dom |-> [container |-> "select", overlay |-> FALSE, globalLoading |-> FALSE,
            errorMessage |-> Hidden, userFeedback |-> Hidden],
   net |-> [timeline |-> [p \in ProjectIds |-> 0], init |-> TRUE, refresh |-> 0]]

AppInit ==
  /\ app = InitialWorld.app
  /\ sel = InitialWorld.sel
  /\ ren = InitialWorld.ren
  /\ dom = InitialWorld.dom
  /\ net = InitialWorld.net

Init ==
  /\ build \in Builds
  /\ AppInit
  /\ vIn = NoInput
  /\ vOut = NoOutput

\* the directory sheet of init() arrives
InitResolve ==
  /\ net.init
  /\ \E parsed \in DirectoryOutcomes :
       LET w0 == [World EXCEPT !.net.init = FALSE] IN
       Commit(IF build = "app_js"
              THEN loadProjects_resume(w0, parsed)
              ELSE Part001_init_resume(w0, parsed))
  /\ UNCHANGED <<build, vIn, vOut>>

\* the visitor picks an entry of the <select>, or switchToProject is called
SelectProject ==
  /\ \A p \in ProjectIds : net.timeline[p] < MaxPending
  /\ \E projectId \in ProjectIds \cup {NoProject, UnknownId} :
       Commit(Selector_handleProjectSelection(World, projectId))
  /\ UNCHANGED <<build, vIn, vOut>>

\* the sheet of a project arrives, or its request fails
TimelineResolve ==
  /\ \E project \in ProjectIds :
       /\ net.timeline[project] > 0
       /\ \E parsed \in TimelineOutcomes :
            Commit(IF build = "app_js"
                   THEN handleProjectSelection_resume(World, project, parsed)
                   ELSE Part001_handleProjectSelection_resume(World, project, parsed))
  /\ UNCHANGED <<build, vIn, vOut>>

\* TimelineAppAPI.refreshData, the keyboard shortcut, the online event
RefreshData ==
  /\ build = "part_001"
  /\ app.appState.initialized
  /\ net.refresh < MaxRefresh
  /\ Commit(refreshData(World))
  /\ UNCHANGED <<build, vIn, vOut>>

RefreshResolve ==
  /\ net.refresh > 0
  /\ \E parsed \in DirectoryOutcomes : Commit(refreshData_resume(World, parsed))
  /\ UNCHANGED <<build, vIn, vOut>>

\* the Retry button of the error state: window.location.reload()
RetryAvailable == dom.container = "error"

Retry ==
  /\ RetryAvailable
  /\ Commit(InitialWorld)
  /\ UNCHANGED <<build, vIn, vOut>>

\* the setTimeout of showError and of showUserFeedback fires
AutoHide ==
  /\ dom.errorMessage.shown \/ dom.userFeedback.shown
  /\ \/ dom.errorMessage.shown /\ dom' = [dom EXCEPT !.errorMessage = Hidden]
     \/ dom.userFeedback.shown /\ dom' = [dom EXCEPT !.userFeedback = Hidden]
  /\ UNCHANGED <<build, app, sel, ren, net, vIn, vOut>>

Next ==
  \/ InitResolve
  \/ SelectProject
  \/ TimelineResolve
  \/ RefreshData
  \/ RefreshResolve
  \/ Retry
  \/ AutoHide

Spec == Init /\ [][Next]_vars

\* every request of fetchProjectTimeline settles: the browser resolves or
\* rejects the promise of each request it has sent
FairSpec == Spec /\ WF_vars(TimelineResolve)

(***************************************************************************)
(* Column validation runs: fetchProjectList and fetchProjectTimeline       *)
(* applied to sheets whose first row carries any subset of the columns     *)
(***************************************************************************)
\* rows after the first carry every column or none: only the first is read
ListSheets ==
  {<<>>} \cup
  { <<ProjectRow("1", first)>> \o rest :
      first \in SUBSET AllListColumns,
      rest \in SeqsUpTo({ProjectRow("2", AllListColumns), ProjectRow("2", {})},
                        MaxValRows - 1) }

TimelineSheets ==
  {<<>>} \cup
  { <<[cols |-> first, dateOk |-> TRUE]>> \o rest :
      first \in SUBSET (AllTimelineColumns \cup Range(listOptionalColumns)),
      rest \in SeqsUpTo({GoodRow, [cols |-> {}, dateOk |-> TRUE]}, MaxValRows - 1) }

ColumnsInit ==
  /\ build = "app_js"
  /\ AppInit
  /\ vIn \in {[which |-> "list", rows |-> rows] : rows \in ListSheets}
          \cup {[which |-> "timeline", rows |-> rows] : rows \in TimelineSheets}
  /\ vOut = NoOutput

Output(r) == [done |-> TRUE, ok |-> r.ok, rows |-> r.rows, msg |-> r.msg]

CallFetchProjectList ==
  /\ vIn.which = "list"
  /\ ~vOut.done
  /\ vOut' = Output(fetchProjectList(Returned(vIn.rows)))
  /\ UNCHANGED <<build, app, sel, ren, dom, net, vIn>>

CallFetchProjectTimeline ==
  /\ vIn.which = "timeline"
  /\ ~vOut.done
  /\ vOut' = Output(fetchProjectTimeline("1", Returned(vIn.rows)))
  /\ UNCHANGED <<build, app, sel, ren, dom, net, vIn>>

ColumnsNext == CallFetchProjectList \/ CallFetchProjectTimeline

SpecColumns == ColumnsInit /\ [][ColumnsNext]_vars

(***************************************************************************)
(* DataFetcher.parseDate, src/js/components/DataFetcher.js lines 107-170   *)
(***************************************************************************)
MaxDay == 32        \* largest day number written in the date texts
MaxMonth == 13      \* largest month number written in the date texts
MaxMapRows == 5     \* rows of a batch in the mapper runs

DigitChars == <<"0", "1", "2", "3", "4", "5", "6", "7", "8", "9">>

IsDigit(c) == \E i \in 1..10 : DigitChars[i] = c

DigitValue(c) == (CHOOSE i \in 1..10 : DigitChars[i] = c) - 1

\* /^\d+$/ on the characters from..to of s
AllDigits(s, from, to) == \A i \in from..to : IsDigit(SubSeq(s, i, i))

\* parseInt(text, 10) of a text of digits
RECURSIVE parseInt(_)
parseInt(s) ==
  IF Len(s) = 0 THEN 0
  ELSE 10 * parseInt(SubSeq(s, 1, Len(s) - 1)) + DigitValue(SubSeq(s, Len(s), Len(s)))

\* String.prototype.trim, for blanks
RECURSIVE trim(_)
trim(s) ==
  IF Len(s) > 0 /\ SubSeq(s, 1, 1) = " " THEN trim(SubSeq(s, 2, Len(s)))
  ELSE IF Len(s) > 0 /\ SubSeq(s, Len(s), Len(s)) = " " THEN trim(SubSeq(s, 1, Len(s) - 1))
  ELSE s

NoMatch == [matched |-> FALSE, g1 |-> "", g2 |-> "", g3 |-> ""]

\* dateStr.match(/^(\d{1,2})\/(\d{1,2})\/(\d{4})$/)
matchSlashDate(s) ==
  LET splits == {ab \in (1..2) \X (1..2) :
                   /\ Len(s) = ab[1] + ab[2] + 6
                   /\ AllDigits(s, 1, ab[1])
                   /\ SubSeq(s, ab[1] + 1, ab[1] + 1) = "/"
                   /\ AllDigits(s, ab[1] + 2, ab[1] + ab[2] + 1)
                   /\ SubSeq(s, ab[1] + ab[2] + 2, ab[1] + ab[2] + 2) = "/"
                   /\ AllDigits(s, ab[1] + ab[2] + 3, Len(s))}
  IN IF splits = {} THEN NoMatch
     ELSE LET ab == CHOOSE x \in splits : TRUE IN
          [matched |-> TRUE,
           g1 |-> SubSeq(s, 1, ab[1]),
           g2 |-> SubSeq(s, ab[1] + 2, ab[1] + ab[2] + 1),
           g3 |-> SubSeq(s, ab[1] + ab[2] + 3, Len(s))]

\* dateStr.match(/^(\d{4})-(\d{2})-(\d{2})$/)
matchIsoDate(s) ==
  IF /\ Len(s) = 10
     /\ AllDigits(s, 1, 4) /\ SubSeq(s, 5, 5) = "-"
     /\ AllDigits(s, 6, 7) /\ SubSeq(s, 8, 8) = "-"
     /\ AllDigits(s, 9, 10)
  THEN [matched |-> TRUE, g1 |-> SubSeq(s, 1, 4), g2 |-> SubSeq(s, 6, 7),
        g3 |-> SubSeq(s, 9, 10)]
  ELSE NoMatch

\* the calendar: month is 0-based as in JavaScript
isLeapYear(year) == (year % 4 = 0 /\ year % 100 # 0) \/ year % 400 = 0

daysInMonth(year, month) ==
  IF month = 1 THEN (IF isLeapYear(year) THEN 29 ELSE 28)
  ELSE IF month \in {3, 5, 8, 10} THEN 30 ELSE 31

\* a Date value by its local getFullYear(), getMonth(), getDate()
DateOf(year, month, day) == [year |-> year, month |-> month, day |-> day]

\* MakeDay of ECMAScript: months beyond 0..11 carry into the year, days
\* beyond the month roll into the months after or before it
RECURSIVE rollOver(_, _, _)
rollOver(year, month, day) ==
  IF month > 11 THEN rollOver(year + 1, month - 12, day)
  ELSE IF month < 0 THEN rollOver(year - 1, month + 12, day)
  ELSE IF day > daysInMonth(year, month)
       THEN rollOver(year, month + 1, day - daysInMonth(year, month))
  ELSE IF day < 1
       THEN LET py == IF month = 0 THEN year - 1 ELSE year
                pm == IF month = 0 THEN 11 ELSE month - 1
            IN rollOver(py, pm, day + daysInMonth(py, pm))
  ELSE DateOf(year, month, day)

\* new Date(year, month, day): a year of 0..99 means 1900 + year
NewDate(year, month, day) ==
  rollOver(IF year \in 0..99 THEN 1900 + year ELSE year, month, day)

\* new Date(dateStr) is implementation-defined outside the ISO format and
\* for a day that the month does not have: "lenient" is an engine that rolls
\* such a day over (V8), "strict" one that answers Invalid Date
Engines == {"lenient", "strict"}

InvalidDate == [valid |-> FALSE, date |-> DateOf(0, 0, 0)]
ValidDate(date) == [valid |-> TRUE, date |-> date]

\* new Date(dateStr) for the texts of the runs
genericParse(engine, s) ==
  LET iso == matchIsoDate(s) IN
  IF iso.matched
  THEN LET year == parseInt(iso.g1)
           month == parseInt(iso.g2)
           day == parseInt(iso.g3)
       IN IF month \notin 1..12 \/ day \notin 1..31 THEN InvalidDate
          ELSE IF day <= daysInMonth(year, month - 1)
          THEN ValidDate(DateOf(year, month - 1, day))
          ELSE IF engine = "lenient"
          THEN ValidDate(rollOver(year, month - 1, day))
          ELSE InvalidDate
  ELSE IF s = "March 5, 2020" THEN ValidDate(DateOf(2020, 2, 5))
  ELSE InvalidDate

DateReturned(date) == [ok |-> TRUE, date |-> date, msg |-> ""]
DateThrown(msg) == [ok |-> FALSE, date |-> DateOf(0, 0, 0), msg |-> msg]

\* a parse that trusts the date the constructor made
sameComponents_Unchecked(date, year, month, day) == TRUE

\* date.getDate() === day && date.getMonth() === month && date.getFullYear() === year
sameComponents(date, year, month, day) ==
  date.day = day /\ date.month = month /\ date.year = year

parseDate(engine, dateString) ==
  IF dateString = "" THEN DateThrown("Invalid or missing date")
  ELSE
  LET dateStr == trim(dateString)
      ddmmyyyyMatch == matchSlashDate(dateStr)
      mmddyyyyMatch == matchSlashDate(dateStr)
      isoMatch == matchIsoDate(dateStr)
      parsedDate == genericParse(engine, dateStr)
      \* lines 163-169
      generic == IF parsedDate.valid THEN DateReturned(parsedDate.date)
                 ELSE DateThrown("Invalid date format")
      \* lines 149-161
      iso ==
        IF isoMatch.matched
        THEN LET year == parseInt(isoMatch.g1)
                 month == parseInt(isoMatch.g2) - 1
                 day == parseInt(isoMatch.g3)
                 date == NewDate(year, month, day)
             IN IF sameComponents(date, year, month, day)
                THEN DateReturned(date) ELSE generic
        ELSE generic
      \* lines 132-147
      mmddyyyy ==
        IF mmddyyyyMatch.matched
        THEN LET month == parseInt(mmddyyyyMatch.g1) - 1
                 day == parseInt(mmddyyyyMatch.g2)
                 year == parseInt(mmddyyyyMatch.g3)
                 date == NewDate(year, month, day)
             IN IF /\ month >= 0 /\ month <= 11 /\ day >= 1 /\ day <= 31
                   /\ sameComponents(date, year, month, day)
                THEN DateReturned(date) ELSE iso
        ELSE iso
  \* lines 115-130
  IN IF ddmmyyyyMatch.matched
     THEN LET day == parseInt(ddmmyyyyMatch.g1)
              month == parseInt(ddmmyyyyMatch.g2) - 1
              year == parseInt(ddmmyyyyMatch.g3)
              date == NewDate(year, month, day)
          IN IF ~sameComponents(date, year, month, day)
             THEN DateThrown("Invalid date")
             ELSE DateReturned(date)
     ELSE mmddyyyy

(***************************************************************************)
(* Date runs: parseDate applied to day/month/year and year-month-day texts *)
(* of every day 0..MaxDay and month 0..MaxMonth, and to other texts        *)
(***************************************************************************)
\* the number written with the fewest digits, and with two
Written(n) ==
  IF n < 10 THEN DigitChars[n + 1]
  ELSE DigitChars[(n \div 10) + 1] \o DigitChars[(n % 10) + 1]

Padded(n) == IF n < 10 THEN "0" \o Written(n) ELSE Written(n)

Spellings(n) == {Written(n), Padded(n)}

\* 0099 is a year new Date(year, month, day) reads as 1999
YearTexts == {"2020", "2019", "1900", "2000", "0099"}

\* a text with the numbers written in it: first and second are the numbers
\* before and after the first separator of a slash text
NumberSpellings(max) ==
  UNION {{<<n, sp>> : sp \in Spellings(n)} : n \in 0..max}

SlashTexts ==
  {[shape |-> "slash", text |-> d[2] \o "/" \o m[2] \o "/" \o y,
    first |-> d[1], second |-> m[1], year |-> parseInt(y)] :
     d \in NumberSpellings(MaxDay), m \in NumberSpellings(MaxMonth), y \in YearTexts}

IsoTexts ==
  {[shape |-> "iso", text |-> y \o "-" \o Padded(m) \o "-" \o Padded(d),
    first |-> d, second |-> m, year |-> parseInt(y)] :
     d \in 0..MaxDay, m \in 0..MaxMonth, y \in YearTexts}

OtherTexts ==
  {[shape |-> "slash", text |-> "12/25/2020", first |-> 12, second |-> 25, year |-> 2020],
   [shape |-> "slash", text |-> " 05/03/2020 ", first |-> 5, second |-> 3, year |-> 2020],
   [shape |-> "other", text |-> "", first |-> 0, second |-> 0, year |-> 0],
   [shape |-> "other", text |-> " ", first |-> 0, second |-> 0, year |-> 0],
   [shape |-> "other", text |-> "5/3/20", first |-> 0, second |-> 0, year |-> 0],
   [shape |-> "other", text |-> "not a date", first |-> 0, second |-> 0, year |-> 0],
   [shape |-> "other", text |-> "March 5, 2020", first |-> 0, second |-> 0, year |-> 0]}

DateTexts == SlashTexts \cup IsoTexts \cup OtherTexts

DateNoOutput == [done |-> FALSE, ok |-> FALSE, date |-> DateOf(0, 0, 0), msg |-> ""]

DateOutput(r) == [done |-> TRUE, ok |-> r.ok, date |-> r.date, msg |-> r.msg]

DatesInit ==
  /\ build = "app_js"
  /\ AppInit
  /\ vIn \in {[which |-> "date", engine |-> e, written |-> w] :
               e \in Engines, w \in DateTexts}
  /\ vOut = DateNoOutput

CallParseDate ==
  /\ vIn.which = "date"
  /\ ~vOut.done
  /\ vOut' = DateOutput(parseDate(vIn.engine, vIn.written.text))
  /\ UNCHANGED <<build, app, sel, ren, dom, net, vIn>>

DatesNext == CallParseDate

SpecDates == DatesInit /\ [][DatesNext]_vars

(***************************************************************************)
(* Mapper runs: transformToTimelineFormat applied to batches of rows whose *)
(* date_announced is a good date, a day the month lacks, blank or absent   *)
(***************************************************************************)
AbsentCell == [present |-> FALSE, text |-> ""]
TextCell(text) == [present |-> TRUE, text |-> text]

MapperCells == {TextCell("15/03/2024"), TextCell("31/02/2020"), TextCell(""), AbsentCell}

\* the row as transformToTimelineFormat reads it: parseDate(event.date_announced)
\* returns or throws
rowOf(engine, cell) ==
  [cols |-> IF cell.present THEN AllTimelineColumns
            ELSE AllTimelineColumns \ {"date_announced"},
   dateOk |-> cell.present /\ parseDate(engine, cell.text).ok]

MapperNoOutput == [done |-> FALSE, items |-> <<>>]

MapperInit ==
  /\ build = "app_js"
  /\ AppInit
  /\ vIn \in {[which |-> "map", engine |-> e, cells |-> cells] :
               e \in Engines, cells \in SeqsUpTo(MapperCells, MaxMapRows)}
  /\ vOut = MapperNoOutput

CallTransformToTimelineFormat ==
  /\ vIn.which = "map"
  /\ ~vOut.done
  /\ vOut' = [done |-> TRUE,
              items |-> transformToTimelineFormat(
                          "1", [i \in 1..Len(vIn.cells) |-> rowOf(vIn.engine, vIn.cells[i])])]
  /\ UNCHANGED <<build, app, sel, ren, dom, net, vIn>>

MapperNext == CallTransformToTimelineFormat

SpecMapper == MapperInit /\ [][MapperNext]_vars

(***************************************************************************)
(* MediaTypeHandler: the media type of a link                              *)
(***************************************************************************)
UpperChars == "ABCDEFGHIJKLMNOPQRSTUVWXYZ"
LowerChars == "abcdefghijklmnopqrstuvwxyz"

\* String.prototype.toLowerCase, for the letters A..Z
\* (character by character; the text is halved to keep the evaluation shallow)
RECURSIVE toLowerCase(_)
toLowerCase(s) ==
  IF Len(s) = 0 THEN ""
  ELSE IF Len(s) = 1
       THEN IF \E i \in 1..26 : SubSeq(UpperChars, i, i) = s
            THEN LET i == CHOOSE i \in 1..26 : SubSeq(UpperChars, i, i) = s
                 IN SubSeq(LowerChars, i, i)
            ELSE s
  ELSE toLowerCase(SubSeq(s, 1, Len(s) \div 2))
         \o toLowerCase(SubSeq(s, Len(s) \div 2 + 1, Len(s)))

\* String.prototype.startsWith, and a pattern anchored with ^
StartsWith(s, prefix) == Len(s) >= Len(prefix) /\ SubSeq(s, 1, Len(prefix)) = prefix

\* /^https?:\/\//
Schemes == {"http://", "https://"}

MEDIA_TYPES == {"twitter", "news", "youtube", "facebook", "instagram", "unknown"}

\* a value handed over as url: a string, or something that is not a string
StringValue(text) == [type |-> "string", text |-> text]
OtherValue(type) == [type |-> type, text |-> ""]

isTwitterLink(url) ==
  /\ url # ""
  /\ \E scheme \in Schemes :
       \/ \E www \in {"", "www."}, host \in {"twitter.com", "x.com"} :
            StartsWith(url, scheme \o www \o host \o "/")
       \/ \E host \in {"twitter.com", "x.com"} :
            StartsWith(url, scheme \o "mobile." \o host \o "/")
       \/ StartsWith(url, scheme \o "t.co/")

isYouTubeLink(url) ==
  /\ url # ""
  /\ \E scheme \in Schemes :
       \/ \E www \in {"", "www."}, host \in {"youtube.com", "youtu.be"} :
            StartsWith(url, scheme \o www \o host \o "/")
       \/ StartsWith(url, scheme \o "m.youtube.com/")

isFacebookLink(url) ==
  /\ url # ""
  /\ \E scheme \in Schemes :
       \/ \E www \in {"", "www."}, host \in {"facebook.com", "fb.com"} :
            StartsWith(url, scheme \o www \o host \o "/")
       \/ StartsWith(url, scheme \o "m.facebook.com/")

isInstagramLink(url) ==
  /\ url # ""
  /\ \E scheme \in Schemes, www \in {"", "www."} :
       StartsWith(url, scheme \o www \o "instagram.com/")

\* the texts of socialMediaPatterns: each is searched anywhere in the url
socialMediaPatterns ==
  {"twitter.com", "x.com", "facebook.com", "fb.com", "instagram.com",
   "youtube.com", "youtu.be", "linkedin.com", "tiktok.com", "snapchat.com"}

isNewsArticle(url) ==
  /\ url # ""
  /\ \E scheme \in Schemes : StartsWith(url, scheme)
  /\ LET isSocialMedia == \E pattern \in socialMediaPatterns : Includes(url, pattern)
     IN ~isSocialMedia

detectMediaType(url) ==
  IF url.type # "string" \/ url.text = "" THEN "unknown"
  ELSE LET normalizedUrl == trim(toLowerCase(url.text))
       IN IF isTwitterLink(normalizedUrl) THEN "twitter"
          ELSE IF isYouTubeLink(normalizedUrl) THEN "youtube"
          ELSE IF isFacebookLink(normalizedUrl) THEN "facebook"
          ELSE IF isInstagramLink(normalizedUrl) THEN "instagram"
          ELSE IF isNewsArticle(normalizedUrl) THEN "news"
          ELSE "unknown"

(***************************************************************************)
(* i18n, and the text helpers of the card formatters                       *)
(***************************************************************************)
\* i18next.t with the resources that initializeI18n falls back to: a key
\* without a resource is answered by the key itself
t(key) ==
  CASE key = "loading" -> "Cargando..."
    [] key = "selectProject" -> "Selecciona un Proyecto:"
    [] key = "selectProjectToView" -> "Selecciona un proyecto para ver su cronologia"
    [] OTHER -> key

\* what reading innerHTML gives for a text node: & < > become entities,
\* quotes stay as they are
RECURSIVE serializeText(_)
serializeText(s) ==
  IF Len(s) = 0 THEN ""
  ELSE IF Len(s) = 1
       THEN CASE s = "&" -> "&amp;"
              [] s = "<" -> "&lt;"
              [] s = ">" -> "&gt;"
              [] OTHER -> s
  ELSE serializeText(SubSeq(s, 1, Len(s) \div 2))
         \o serializeText(SubSeq(s, Len(s) \div 2 + 1, Len(s)))

\* CardRenderer.escapeHtml, of a string
escapeHtml(text) == serializeText(text)

\* DataFetcher.prototype.escapeHtml, of a string
DataFetcher_escapeHtml(text) == serializeText(text)

\* String.prototype.lastIndexOf(searchChar, fromIndex): the 0-based position
\* of the last occurrence at or before fromIndex, -1 without one
lastIndexOf(s, c, fromIndex) ==
  LET found == {i \in 0..(IF fromIndex < Len(s) - 1 THEN fromIndex ELSE Len(s) - 1) :
                  SubSeq(s, i + 1, i + 1) = c}
  IN IF found = {} THEN -1 ELSE CHOOSE i \in found : \A j \in found : j <= i

\* String.prototype.indexOf(searchChar), 0-based, -1 without an occurrence
indexOf(s, c) ==
  LET found == {i \in 0..(Len(s) - 1) : SubSeq(s, i + 1, i + 1) = c}
  IN IF found = {} THEN -1 ELSE CHOOSE i \in found : \A j \in found : i <= j

\* String.prototype.substring(0, end)
substring(s, end) == SubSeq(s, 1, IF end < Len(s) THEN end ELSE Len(s))

\* .replace(/\s+/g, '-'): every run of blanks becomes one dash
RECURSIVE dashBlanks(_)
dashBlanks(s) ==
  IF Len(s) = 0 THEN ""
  ELSE IF SubSeq(s, 1, 1) # " " THEN SubSeq(s, 1, 1) \o dashBlanks(SubSeq(s, 2, Len(s)))
  ELSE IF Len(s) > 1 /\ SubSeq(s, 2, 2) = " " THEN dashBlanks(SubSeq(s, 2, Len(s)))
  ELSE "-" \o dashBlanks(SubSeq(s, 2, Len(s)))

\* .replace(/\n/g, '<br>')
RECURSIVE breakLines(_)
breakLines(s) ==
  IF Len(s) = 0 THEN ""
  ELSE IF Len(s) = 1 THEN (IF s = "\n" THEN "<br>" ELSE s)
  ELSE breakLines(SubSeq(s, 1, Len(s) \div 2))
         \o breakLines(SubSeq(s, Len(s) \div 2 + 1, Len(s)))

\* a value is truthy when it is there and is not the empty string
Truthy(cell) == cell.present /\ cell.text # ""

\* new URL(link).hostname for an http(s) link: the text between the scheme
\* and the first slash, in lower case; anything else makes new URL throw
UrlForbiddenHostChars == {" ", "<", ">", "\"", "\n"}

hostname(link) ==
  LET text == trim(link)
      scheme == IF StartsWith(text, "https://") THEN "https://"
                ELSE IF StartsWith(text, "http://") THEN "http://" ELSE ""
      rest == SubSeq(text, Len(scheme) + 1, Len(text))
      slash == indexOf(rest, "/")
      host == IF slash < 0 THEN rest ELSE substring(rest, slash)
  IN IF scheme = "" \/ host = "" \/ \E c \in UrlForbiddenHostChars : Includes(host, c)
     THEN [ok |-> FALSE, host |-> ""]
     ELSE [ok |-> TRUE, host |-> toLowerCase(host)]

\* .replace('www.', ''): the first occurrence only
dropWww(s) ==
  IF \E i \in 1..(Len(s) - 3) : SubSeq(s, i, i + 3) = "www."
  THEN LET i == CHOOSE i \in 1..(Len(s) - 3) :
                  /\ SubSeq(s, i, i + 3) = "www."
                  /\ \A j \in 1..(i - 1) : SubSeq(s, j, j + 3) # "www."
       IN SubSeq(s, 1, i - 1) \o SubSeq(s, i + 4, Len(s))
  ELSE s

(***************************************************************************)
(* MediaTypeHandler: icon and label of a media type                        *)
(***************************************************************************)
\* the emoji of the type, written in ASCII
getMediaEmoji(mediaType) ==
  CASE mediaType = "twitter" -> "(bird)"
    [] mediaType = "news" -> "(newspaper)"
    [] mediaType = "youtube" -> "(tv)"
    [] mediaType = "facebook" -> "(book)"
    [] mediaType = "instagram" -> "(camera)"
    [] OTHER -> "(link)"

getMediaTypeLabel(mediaType) ==
  CASE mediaType = "twitter" -> t("twitter")
    [] mediaType = "news" -> t("newsArticle")
    [] mediaType = "youtube" -> t("youtube")
    [] mediaType = "facebook" -> t("facebook")
    [] mediaType = "instagram" -> t("instagram")
    [] mediaType = "unknown" -> t("link")
    [] OTHER -> t("unknown")

createMediaIcon(mediaType) ==
  "<span class=\"media-icon media-icon-" \o mediaType \o "\" title=\""
    \o getMediaTypeLabel(mediaType) \o "\">" \o getMediaEmoji(mediaType) \o "</span>"

(***************************************************************************)
(* CardRenderer: the card of a media event                                 *)
(***************************************************************************)
\* a number as a template literal writes it
RECURSIVE numberText(_)
numberText(n) ==
  IF n < 10 THEN DigitChars[n + 1]
  ELSE numberText(n \div 10) \o DigitChars[(n % 10) + 1]

ShortMonths ==
  <<"Jan", "Feb", "Mar", "Apr", "May", "Jun", "Jul", "Aug", "Sep", "Oct", "Nov", "Dec">>

\* toLocaleDateString('en-US', {year: 'numeric', month: 'short', day: 'numeric'})
toLocaleDateString(date) ==
  ShortMonths[date.month + 1] \o " " \o numberText(date.day) \o ", " \o numberText(date.year)

formatDate(date) ==
  IF date = "" THEN ""
  ELSE LET dateMatch == matchSlashDate(date)
           day == parseInt(dateMatch.g1)
           month == parseInt(dateMatch.g2)
           year == parseInt(dateMatch.g3)
           dateObj == NewDate(year, month - 1, day)
       IN IF /\ dateMatch.matched
             /\ dateObj.year = year /\ dateObj.month = month - 1 /\ dateObj.day = day
          THEN toLocaleDateString(dateObj)
          ELSE date

createPartyBadgeHTML(party) ==
  IF party = "" THEN ""
  ELSE LET normalizedParty == dashBlanks(toLowerCase(party))
       IN "<span class=\"party-badge party-" \o normalizedParty \o "\">" \o party \o "</span>"

\* the longest description formatDescription shows whole
maxLength == 200

formatDescription(description) ==
  LET cleanDescription == trim(description)
      truncateAt == lastIndexOf(cleanDescription, ".", maxLength)
      lastSpace == lastIndexOf(cleanDescription, " ", maxLength)
      truncatedDescription ==
        IF Len(cleanDescription) > maxLength
        THEN IF 10 * truncateAt > 7 * maxLength
             THEN substring(cleanDescription, truncateAt + 1)
             ELSE substring(cleanDescription, IF lastSpace > 0 THEN lastSpace ELSE maxLength)
                    \o "..."
        ELSE cleanDescription
  IN IF cleanDescription = "" THEN ""
     ELSE breakLines(escapeHtml(truncatedDescription))

processHeadline(headline, link) ==
  IF Truthy(headline) /\ trim(headline.text) # "" THEN trim(headline.text)
  ELSE IF Truthy(link) /\ hostname(link.text).ok
       THEN "Media from " \o dropWww(hostname(link.text).host)
  ELSE t("mediaEvent")

processDescription(description, headline) ==
  IF Truthy(description) /\ trim(description.text) # "" THEN trim(description.text)
  ELSE IF /\ Truthy(headline)
          /\ headline.text # t("mediaEvent")
          /\ headline.text # t("noHeadlineAvailable")
       THEN t("noDescriptionAvailable")
  ELSE ""

processLink(link) ==
  IF ~Truthy(link) THEN ""
  ELSE LET trimmedLink == trim(link.text)
       IN IF trimmedLink = "" THEN ""
          ELSE IF StartsWith(trimmedLink, "http://") \/ StartsWith(trimmedLink, "https://")
               THEN trimmedLink
          ELSE IF Includes(trimmedLink, ".") /\ ~Includes(trimmedLink, " ")
               THEN "https://" \o trimmedLink
          ELSE ""

processParty(party) == IF ~Truthy(party) THEN "" ELSE trim(party.text)

processDate(date) == IF ~Truthy(date) THEN "" ELSE trim(date.text)

hasMinimalContent(headline, description, link) ==
  LET hasHeadline == headline # "" /\ headline # t("mediaEvent")
      hasDescription == description # ""
      hasLink == link # ""
  IN hasHeadline \/ hasDescription \/ hasLink

processIncompleteEventData(newsEvent) ==
  LET headline == processHeadline(newsEvent.headline, newsEvent.news_link)
      description == processDescription(newsEvent.description, newsEvent.headline)
      link == processLink(newsEvent.news_link)
  IN [headline |-> headline,
      description |-> description,
      link |-> link,
      party |-> processParty(newsEvent.party),
      date |-> processDate(newsEvent.date_announced),
      mediaType |-> IF link # "" THEN detectMediaType(StringValue(link)) ELSE "unknown",
      hasMinimalContent |-> hasMinimalContent(headline, description, link)]

createFallbackCard(title, message, date, party) ==
  LET formattedDate == IF date # "" THEN formatDate(date) ELSE ""
      partyBadgeHTML == IF party # "" THEN createPartyBadgeHTML(party) ELSE ""
  IN "<div class=\"timeline-card media-card incomplete-event\">"
       \o "<div class=\"card-header\"><div class=\"media-info\">"
       \o "<span class=\"media-icon\">(warning)</span>"
       \o "<span class=\"media-type\">" \o t("incompleteEvent") \o "</span>"
       \o (IF formattedDate # ""
           THEN "<span class=\"card-date\">" \o formattedDate \o "</span>" ELSE "")
       \o "</div>" \o partyBadgeHTML \o "</div>"
       \o "<div class=\"card-content\">"
       \o "<h4 class=\"card-headline incomplete\">" \o title \o "</h4>"
       \o "<p class=\"card-description incomplete\">" \o message \o "</p></div>"
       \o "<div class=\"card-footer incomplete\">"
       \o "<span class=\"incomplete-notice\">" \o t("incompleteNotice") \o "</span>"
       \o "</div></div>"

formatCardContent(eventData) ==
  LET headline == eventData.headline
      link == eventData.link
      mediaType == eventData.mediaType
      mediaIcon == createMediaIcon(mediaType)
      mediaLabel == getMediaTypeLabel(mediaType)
      partyBadgeHTML == IF eventData.party # "" THEN createPartyBadgeHTML(eventData.party) ELSE ""
      formattedDescription == formatDescription(eventData.description)
      formattedDate == formatDate(eventData.date)
  IN "<div class=\"timeline-card media-card media-" \o mediaType \o "\">"
       \o "<div class=\"card-header\"><div class=\"media-info\">"
       \o mediaIcon
       \o "<span class=\"media-type\">" \o mediaLabel \o "</span>"
       \o (IF formattedDate # ""
           THEN "<span class=\"card-date\">" \o formattedDate \o "</span>" ELSE "")
       \o "</div>" \o partyBadgeHTML \o "</div>"
       \o "<div class=\"card-content\"><h4 class=\"card-headline\">"
       \o (IF link # ""
           THEN "<a href=\"" \o link
                  \o "\" target=\"_blank\" rel=\"noopener noreferrer\" class=\"card-link\">"
                  \o headline \o "</a>"
           ELSE headline)
       \o "</h4>"
       \o (IF formattedDescription # ""
           THEN "<p class=\"card-description\">" \o formattedDescription \o "</p>" ELSE "")
       \o "</div>"
       \o (IF link # ""
           THEN "<div class=\"card-footer\"><a href=\"" \o link
                  \o "\" target=\"_blank\" rel=\"noopener noreferrer\" class=\"external-link\">"
                  \o t("readFull") \o " " \o toLowerCase(mediaLabel) \o " (arrow)</a></div>"
           ELSE "")
       \o "</div>"

\* the card, and which of the two variants it is
createNewsCard(newsEvent) ==
  IF ~newsEvent.object
  THEN createFallbackCard("Invalid event data",
         "Unable to display this media event due to invalid data format.", "", "")
  ELSE LET processedEvent == processIncompleteEventData(newsEvent)
       IN IF ~processedEvent.hasMinimalContent
          THEN createFallbackCard("Incomplete Media Event",
                 "This media event has insufficient information to display properly.",
                 processedEvent.date, processedEvent.party)
          ELSE formatCardContent(processedEvent)

(***************************************************************************)
(* DataFetcher: the compact card of a timeline item                        *)
(***************************************************************************)
\* event.field || fallback
OrElse(cell, fallback) == IF Truthy(cell) THEN cell.text ELSE fallback

\* the longest description createEventContent shows whole
compactLength == 160

\* description.length > 160 ? description.substring(0, 160).trim() + '...' : description
compactDescription(description) ==
  IF Len(description) > compactLength
  THEN trim(substring(description, compactLength)) \o "..."
  ELSE description

createEventContent(event) ==
  LET headline == OrElse(event.headline, t("noHeadlineAvailable"))
      description == OrElse(event.description, t("noDescriptionAvailable"))
      party == OrElse(event.party, "Unknown")
      newsLink == OrElse(event.news_link, "#")
      partyClass == "party-" \o dashBlanks(toLowerCase(party))
      truncatedDescription == compactDescription(description)
      eventDate == OrElse(event.date_announced, "No date")
  IN "<div class=\"timeline-card-compact " \o partyClass \o "\">"
       \o "<div><strong>" \o DataFetcher_escapeHtml(headline) \o "</strong></div>"
       \o "<div><em>" \o DataFetcher_escapeHtml(eventDate) \o "</em></div>"
       \o "<div>" \o DataFetcher_escapeHtml(truncatedDescription) \o "</div>"
       \o "<div><a href=\"" \o DataFetcher_escapeHtml(newsLink)
       \o "\" target=\"_blank\">(newspaper)</a></div>"
       \o "</div>"

(***************************************************************************)
(* Card runs: one event handed to createNewsCard or to createEventContent  *)
(***************************************************************************)
CardFields == {"headline", "description", "news_link", "party", "date_announced"}

HeadlineCells ==
  {AbsentCell, TextCell(""), TextCell(" "), TextCell("Plan de obras"),
   TextCell("<script>alert(1)</script>"), TextCell(t("mediaEvent"))}

DescriptionCells ==
  {AbsentCell, TextCell(" "), TextCell("Obras & servicios <b>"), TextCell("Linea 1\nLinea 2")}

LinkCells ==
  {AbsentCell, TextCell("https://www.example-news.com/a"), TextCell("example.com"),
   TextCell("not a url"), TextCell("https://e.com/\"onclick=\"x"),
   TextCell("https://x.com/u/status/1")}

PartyCells == {AbsentCell, TextCell("Partido Popular"), TextCell("\"><b>")}

DateCells == {AbsentCell, TextCell("15/03/2024"), TextCell("31/02/2020"), TextCell("<i>hoy</i>")}

\* what is handed over when it is not an object
NullEvent ==
  [object |-> FALSE, headline |-> AbsentCell, description |-> AbsentCell,
   news_link |-> AbsentCell, party |-> AbsentCell, date_announced |-> AbsentCell]

CardEvents ==
  {NullEvent} \cup
  {[object |-> TRUE, headline |-> h, description |-> d, news_link |-> l,
    party |-> p, date_announced |-> a] :
     h \in HeadlineCells, d \in DescriptionCells, l \in LinkCells,
     p \in PartyCells, a \in DateCells}

CardNoOutput == [done |-> FALSE, by |-> "", html |-> ""]

CardsInit ==
  /\ build = "app_js"
  /\ AppInit
  /\ vIn \in {[which |-> "card", event |-> e] : e \in CardEvents}
  /\ vOut = CardNoOutput

CallCreateNewsCard ==
  /\ vIn.which = "card"
  /\ ~vOut.done
  /\ vOut' = [done |-> TRUE, by |-> "createNewsCard", html |-> createNewsCard(vIn.event)]
  /\ UNCHANGED <<build, app, sel, ren, dom, net, vIn>>

\* transformToTimelineFormat calls it for the rows of the sheet, which are objects
CallCreateEventContent ==
  /\ vIn.which = "card"
  /\ vIn.event.object
  /\ ~vOut.done
  /\ vOut' = [done |-> TRUE, by |-> "createEventContent",
              html |-> createEventContent(vIn.event)]
  /\ UNCHANGED <<build, app, sel, ren, dom, net, vIn>>

CardsNext == CallCreateNewsCard \/ CallCreateEventContent

SpecCards == CardsInit /\ [][CardsNext]_vars

(***************************************************************************)
(* Media type runs: one value handed to detectMediaType                    *)
(***************************************************************************)
UrlSchemes == {"http://", "https://", "HTTPS://", "ftp://", ""}

UrlSubdomains == {"", "www.", "mobile.", "m.", "api."}

\* the domains the social patterns of MediaTypeHandler name
SocialDomains ==
  {"twitter.com", "x.com", "t.co", "youtube.com", "youtu.be", "facebook.com", "fb.com",
   "instagram.com", "linkedin.com", "tiktok.com", "snapchat.com"}

\* netflix.com ends in x.com, notfb.com in fb.com
OtherDomains == {"example-news.com", "elpais.com", "netflix.com", "notfb.com"}

\* what follows the host: nothing, a path, a query, a path that mentions a
\* social domain
UrlTails == {"", "/", "/user/status/1", "?ref=1", "/noticias/cierre-de-twitter.com", " "}

UrlTexts ==
  {[shape |-> "url", scheme |-> s, subdomain |-> w, domain |-> d, tail |-> p,
    value |-> StringValue(s \o w \o d \o p)] :
     s \in UrlSchemes, w \in UrlSubdomains, d \in SocialDomains \cup OtherDomains,
     p \in UrlTails}

OtherUrlValues ==
  {[shape |-> "other", scheme |-> "", subdomain |-> "", domain |-> "", tail |-> "",
    value |-> v] :
     v \in {StringValue(""), StringValue(" "), StringValue("not a url"),
            StringValue("mailto:prensa@example-news.com"), StringValue("https://"),
            OtherValue("undefined"), OtherValue("null"), OtherValue("number"),
            OtherValue("object")}}

MediaNoOutput == [done |-> FALSE, type |-> ""]

MediaInit ==
  /\ build = "app_js"
  /\ AppInit
  /\ vIn \in {[which |-> "url", url |-> u] : u \in UrlTexts \cup OtherUrlValues}
  /\ vOut = MediaNoOutput

CallDetectMediaType ==
  /\ vIn.which = "url"
  /\ ~vOut.done
  /\ vOut' = [done |-> TRUE, type |-> detectMediaType(vIn.url.value)]
  /\ UNCHANGED <<build, app, sel, ren, dom, net, vIn>>

MediaNext == CallDetectMediaType

SpecMedia == MediaInit /\ [][MediaNext]_vars

(***************************************************************************)
(* Description runs: one text shortened for the card                       *)
(***************************************************************************)
RECURSIVE Repeat(_, _)
Repeat(text, n) ==
  IF n = 0 THEN ""
  ELSE IF n = 1 THEN text
  ELSE Repeat(text, n \div 2) \o Repeat(text, n - n \div 2)

\* lengths of the first stretch of letters, around 140, 160 and 200
FirstLengths == {100, 139, 140, 141, 159, 160, 161, 180, 199, 200, 201}

\* what separates the first stretch from the second
Separators == {" ", ".", ". ", ""}

SecondLengths == {0, 1, 30, 60, 110}

\* a description of two stretches of letters with a separator between them
DescriptionTexts ==
  {[first |-> k, separator |-> sep, second |-> m,
    text |-> Repeat("a", k) \o sep \o Repeat("b", m)] :
     k \in FirstLengths, sep \in Separators, m \in SecondLengths}

DescriptionNoOutput == [done |-> FALSE, by |-> "", limit |-> 0, shown |-> ""]

DescriptionsInit ==
  /\ build = "app_js"
  /\ AppInit
  /\ vIn \in {[which |-> "description", description |-> d] : d \in DescriptionTexts}
  /\ vOut = DescriptionNoOutput

CallFormatDescription ==
  /\ vIn.which = "description"
  /\ ~vOut.done
  /\ vOut' = [done |-> TRUE, by |-> "formatDescription", limit |-> maxLength,
              shown |-> formatDescription(vIn.description.text)]
  /\ UNCHANGED <<build, app, sel, ren, dom, net, vIn>>

\* the description as createEventContent shortens it for its card
CallCompactDescription ==
  /\ vIn.which = "description"
  /\ ~vOut.done
  /\ vOut' = [done |-> TRUE, by |-> "createEventContent", limit |-> compactLength,
              shown |-> compactDescription(vIn.description.text)]
  /\ UNCHANGED <<build, app, sel, ren, dom, net, vIn>>

DescriptionsNext == CallFormatDescription \/ CallCompactDescription

SpecDescriptions == DescriptionsInit /\ [][DescriptionsNext]_vars

(***************************************************************************)
(* Renderer runs: updateData and clearContainer called in any order        *)
(***************************************************************************)
MaxBatch == 3       \* items of a batch handed to updateData

\* the batches of a project: items with and without a start, in row order
Batches ==
  UNION {{[i \in 1..n |-> Item(p, i - 1, starts[i])] : starts \in [1..n -> BOOLEAN]} :
           p \in ProjectIds, n \in 0..MaxBatch}

RendererInit ==
  /\ build \in Builds
  /\ AppInit
  /\ vIn = NoInput
  /\ vOut = NoOutput

\* updateData(newData): vIn keeps the batch of the most recent call
CallUpdateData ==
  /\ \E newData \in Batches :
       /\ Commit(IF build = "app_js"
                 THEN updateData(World, newData)
                 ELSE Part004_updateData(World, newData))
       /\ vIn' = [which |-> "batch", rows |-> newData]
  /\ UNCHANGED <<build, vOut>>

CallClearContainer ==
  /\ Commit(IF build = "app_js" THEN clearContainer(World) ELSE Part004_clearContainer(World))
  /\ vIn' = [which |-> "batch", rows |-> <<>>]
  /\ UNCHANGED <<build, vOut>>

RendererNext == CallUpdateData \/ CallClearContainer

SpecRenderer == RendererInit /\ [][RendererNext]_vars

(***************************************************************************)
(* Steps and observations the properties speak of                          *)
(***************************************************************************)
NoFetchInFlight == \A p \in ProjectIds : net.timeline[p] = 0

\* this step is the selector handling the choice of projectId
SelectStep(projectId) == Commit(Selector_handleProjectSelection(World, projectId))

\* this step is the continuation of project's load for the parser outcome:
\* its request has left the network and the world is the handler's result
ResumeStep(project, parsed) ==
  /\ net.timeline[project] > 0
  /\ net'.timeline = [net.timeline EXCEPT ![project] = @ - 1]
  /\ Commit(IF build = "app_js"
            THEN handleProjectSelection_resume(World, project, parsed)
            ELSE Part001_handleProjectSelection_resume(World, project, parsed))

\* this step is the continuation of a directory load for the parser outcome
DirectoryStep(parsed) ==
  \/ /\ net.init
     /\ ~net'.init
     /\ LET w0 == [World EXCEPT !.net.init = FALSE] IN
        Commit(IF build = "app_js"
               THEN loadProjects_resume(w0, parsed)
               ELSE Part001_init_resume(w0, parsed))
  \/ /\ net.refresh > 0
     /\ net'.refresh = net.refresh - 1
     /\ Commit(refreshData_resume(World, parsed))

\* the first row lacks a required column
LacksColumns(required, rows) ==
  Len(rows) > 0 /\ \E col \in Range(required) : col \notin rows[1].cols

\* the sheet load fails: the collaborator fails or required columns are missing
TimelineLoadFails(parsed) ==
  ~parsed.ok \/ LacksColumns(timelineRequiredColumns, parsed.rows)

ListLoadFails(parsed) ==
  ~parsed.ok \/ LacksColumns(listRequiredColumns, parsed.rows)

\* the parser outcomes with which a load fails, and those with which a
\* project load succeeds without a row whose date parses
FailedTimelineOutcomes == {parsed \in TimelineOutcomes : TimelineLoadFails(parsed)}

FailedDirectoryOutcomes == {parsed \in DirectoryOutcomes : ListLoadFails(parsed)}

EmptyTimelineOutcomes ==
  {parsed \in TimelineOutcomes \ FailedTimelineOutcomes :
     \A i \in 1..Len(parsed.rows) : ~dateParses(parsed.rows[i])}

\* the outcomes whose first row lacks a required column
SchemaFailedOutcomes ==
  {parsed \in TimelineOutcomes :
     parsed.ok /\ LacksColumns(timelineRequiredColumns, parsed.rows)}

\* an error or warning message is on screen
ErrorMessageShown ==
  \/ dom.errorMessage.shown
  \/ dom.userFeedback.shown /\ dom.userFeedback.type \in {"error", "warning"}

\* the container shows one of the two 'no media events' messages
NoEventsMessage == dom.container \in {"empty", "rendererEmpty"}

(***************************************************************************)
(* Properties                                                              *)
(***************************************************************************)

\* C1 (as claimed): once no fetch is in flight, if the visitor's latest
\* selection is a project B made while the load of another project A was
\* pending (the controller still holds A as current), every item displayed is
\* B's and none is A's.
C1_SupersedingSelectionWins ==
  (/\ NoFetchInFlight
   /\ sel.selectedProject # NoProject
   /\ app.currentProject # NoProject
   /\ app.currentProject # sel.selectedProject)
    => /\ DisplayedProjects(World) \subseteq {sel.selectedProject}
       /\ app.currentProject \notin DisplayedProjects(World)

\* C2: no two fetches of the same project sheet are ever in flight together,
\* and isLoading is TRUE for as long as a fetch is in flight.
C2_NoOverlappingFetches ==
  \A p \in ProjectIds :
    /\ net.timeline[p] <= 1
    /\ net.timeline[p] > 0 => app.isLoading

\* C2 witness: a fetch of p is in flight after the visitor chose "no project"
\* and then p again during it: the second choice of p met the isLoading test.
C2_Witness ==
  \E p \in ProjectIds :
    /\ net.timeline[p] = 1
    /\ app.currentProject = NoProject
    /\ sel.selectedProject = p

\* C3: selecting the project that is current and already selected, while its
\* fetch is pending or its timeline (or 'no events' message) is displayed,
\* issues no fetch and leaves the controller's fields, the renderer, the
\* screen and the requests in flight as they were.
C3_ReselectIsNoOp ==
  [][\A p \in ProjectIds :
       (/\ app.currentProject = p
        /\ sel.selectedProject = p
        /\ net.timeline[p] > 0 \/ dom.container \in {"widget", "empty", "rendererEmpty"}
        /\ SelectStep(p))
         => UNCHANGED <<app, ren, dom, net>>]_vars

\* C3 witness: the current and selected project's fetch is pending, or its
\* items are on screen, so that selecting it again is the case of the claim.
C3_Witness ==
  \E p \in ProjectIds :
    /\ app.currentProject = p
    /\ sel.selectedProject = p
    /\ ~app.isLoading
    /\ p \in DisplayedProjects(World)

\* C4 (as claimed): selecting "no project" while a project's timeline or an
\* error is shown (a project is current, nothing is loading) leaves no
\* current project, no displayed item and no error display.
C4_NoProjectDiscardsBatch ==
  [][(/\ app.currentProject # NoProject
      /\ ~app.isLoading
      /\ SelectStep(NoProject))
       => /\ app'.currentProject = NoProject
          /\ DisplayedItems([dom |-> dom', ren |-> ren']) = {}
          /\ dom'.container # "error"
          /\ ~dom'.errorMessage.shown]_vars

\* C5: every step in which a sheet load fails (the parser rejects, or the
\* first row lacks a required column) ends with an error on screen: for a
\* project sheet the error state in the timeline container and an error or
\* warning message; for the directory sheet the selector's error entry and an
\* error message.
C5_FailuresAreVisible ==
  [][/\ \A p \in ProjectIds : \A parsed \in FailedTimelineOutcomes :
          ResumeStep(p, parsed)
            => (dom'.container = "error" /\ ErrorMessageShown')
     /\ \A parsed \in FailedDirectoryOutcomes :
          DirectoryStep(parsed)
            => (sel'.error /\ ErrorMessageShown')]_vars

\* C5 witness: a failed project load has put the error state on screen.
C5_Witness ==
  /\ dom.container = "error"
  /\ ErrorMessageShown
  /\ ~app.isLoading

\* C6: a load whose fetch succeeds with no row whose date parses ends with a
\* 'no media events' message in the container, no error or warning message,
\* and neither the loading indicator nor the loading overlay left.
C6_EmptyIsNotAnError ==
  [][\A p \in ProjectIds : \A parsed \in EmptyTimelineOutcomes :
       ResumeStep(p, parsed)
         => /\ NoEventsMessage'
            /\ ~ErrorMessageShown'
            /\ ~dom'.overlay
            /\ ~app'.isLoading]_vars

\* C6 witness: a 'no media events' message is on screen after a load ended.
C6_Witness ==
  /\ NoEventsMessage
  /\ ~app.isLoading
  /\ app.currentProject # NoProject

\* C7 (as claimed): the retry action leads to a state in which a project
\* fetch is in flight.
C7_RetryRefetches ==
  [][(RetryAvailable /\ Retry) => ~NoFetchInFlight']_vars

\* C7 (amended): a failed project load ends in the error state, where Retry is
\* available; Retry reloads the page, which leads to the initial state (no
\* current project, no project fetch in flight, the directory fetch in
\* flight); and whenever no project is current and nothing is loading,
\* selecting a listed project puts its fetch in flight.
C7_RetryReloads ==
  [][/\ \A p \in ProjectIds : \A parsed \in FailedTimelineOutcomes :
          ResumeStep(p, parsed) => RetryAvailable'
     /\ (RetryAvailable /\ Retry)
          => (app' = InitialWorld.app /\ net' = InitialWorld.net /\ NoFetchInFlight')
     /\ \A p \in ProjectIds :
          (/\ app.currentProject = NoProject
           /\ ~app.isLoading
           /\ findProject(sel.projects, p) = p
           /\ SelectStep(p))
            => (net'.timeline[p] = 1 /\ app'.isLoading)]_vars

\* C7 witness: a project load has failed and the Retry button is on screen.
C7_Witness ==
  /\ RetryAvailable
  /\ app.currentProject # NoProject
  /\ ~app.isLoading
  /\ NoFetchInFlight

\* C8 (as claimed): a project sheet whose first row lacks a required column
\* is never reported with the network-error or the sheet-not-found message.
C8_SchemaErrorHasOwnMessage ==
  [][\A p \in ProjectIds : \A parsed \in SchemaFailedOutcomes :
       ResumeStep(p, parsed)
         => dom'.userFeedback.text \notin {"networkError", "projectNotFound"}]_vars

C10_ColumnValidation ==
  vOut.done =>
    LET required == IF vIn.which = "list" THEN listRequiredColumns
                    ELSE timelineRequiredColumns
    IN /\ ~vOut.ok <=> LacksColumns(required, vIn.rows)
       /\ vOut.ok => vOut.rows = vIn.rows
       /\ ~vOut.ok =>
            /\ vOut.rows = <<>>
            /\ \A col \in Range(required) :
                 Includes(vOut.msg, col) <=> col \notin vIn.rows[1].cols
            /\ ~Includes(vOut.msg, "completed_date")

\* C10 witness: a call failed on a first row that lacks two required columns
\* and carries no completed_date, with a complete row after it.
C10_Witness ==
  /\ vOut.done
  /\ ~vOut.ok
  /\ Len(vIn.rows) = 2
  /\ "completed_date" \notin vIn.rows[1].cols
  /\ Cardinality({col \in Range(timelineRequiredColumns) : col \notin vIn.rows[1].cols}) = 2
  /\ vIn.rows[2] = GoodRow

\* the rows of a mapper run whose date_announced parseDate accepts
ParsingRows ==
  {i \in 1..Len(vIn.cells) :
     vIn.cells[i].present /\ parseDate(vIn.engine, vIn.cells[i].text).ok}

\* C11: transformToTimelineFormat returns one item for each row whose
\* date_announced parses and none for any other row, in the order of the
\* rows, each carrying a start and the index of its row.
C11_OneItemPerParsedRow ==
  vOut.done =>
    /\ Len(vOut.items) = Cardinality(ParsingRows)
    /\ \A i \in 1..Len(vIn.cells) :
         (i \in ParsingRows) <=> (\E k \in 1..Len(vOut.items) : vOut.items[k].index = i - 1)
    /\ \A k \in 1..Len(vOut.items) : vOut.items[k].start
    /\ \A k \in 1..(Len(vOut.items) - 1) : vOut.items[k].index < vOut.items[k + 1].index

\* C11 witness: of five rows only the third has a date that does not parse,
\* and the items of rows 1, 2, 4 and 5 came back in that order.
C11_Witness ==
  /\ vOut.done
  /\ Len(vIn.cells) = 5
  /\ ParsingRows = {1, 2, 4, 5}
  /\ vIn.cells[3] = TextCell("31/02/2020")
  /\ [k \in 1..4 |-> vOut.items[k].index] = <<0, 1, 3, 4>>

\* the text of a date run names a real calendar date when read as
\* day/month/year, and when read as month/day/year
RealDayMonthYear ==
  /\ vIn.written.second \in 1..12
  /\ vIn.written.first \in 1..daysInMonth(vIn.written.year, vIn.written.second - 1)

RealMonthDayYear ==
  /\ vIn.written.first \in 1..12
  /\ vIn.written.second \in 1..daysInMonth(vIn.written.year, vIn.written.first - 1)

\* C12 (as claimed): for every text D/M/YYYY that names a real calendar date,
\* parseDate returns the date of day D, month M and year YYYY.
C12_DayMonthYearRoundTrip ==
  (vOut.done /\ vIn.written.shape = "slash" /\ RealDayMonthYear)
    => /\ vOut.ok
       /\ vOut.date = DateOf(vIn.written.year, vIn.written.second - 1, vIn.written.first)

\* C13: for every text D/M/YYYY with a month 1..12 whose day exceeds the
\* length of that month in that year, parseDate fails.
C13_DayBeyondMonthFails ==
  (/\ vOut.done
   /\ vIn.written.shape = "slash"
   /\ vIn.written.second \in 1..12
   /\ vIn.written.first > daysInMonth(vIn.written.year, vIn.written.second - 1))
    => ~vOut.ok

\* C13 witness: parseDate has failed on 31/02/2020.
C13_Witness ==
  /\ vOut.done
  /\ vIn.written.text = "31/02/2020"
  /\ ~vOut.ok

\* C14 (as claimed): a text that is no real date as day/month/year but is one
\* as month/day/year, such as 12/25/2020, is returned as that month/day/year
\* date.
C14_MonthDayYearFallback ==
  (/\ vOut.done
   /\ vIn.written.shape = "slash"
   /\ ~RealDayMonthYear
   /\ RealMonthDayYear)
    => /\ vOut.ok
       /\ vOut.date = DateOf(vIn.written.year, vIn.written.first - 1, vIn.written.second)

\* C15 (as claimed): every date parseDate returns for a day/month/year,
\* month/day/year or year-month-day text has the day, month and year written
\* in the text.
C15_ReturnedDatesRoundTrip ==
  (vOut.done /\ vOut.ok /\ vIn.written.shape \in {"slash", "iso"})
    => \/ vOut.date = DateOf(vIn.written.year, vIn.written.second - 1, vIn.written.first)
       \/ /\ vIn.written.shape = "slash"
          /\ vOut.date = DateOf(vIn.written.year, vIn.written.first - 1, vIn.written.second)

\* the characters that end a text or an attribute value when written raw
MarkupChars == {"&", "<", ">", "\""}

NeedsEscaping(text) == \E c \in MarkupChars : Includes(text, c)

\* C16: a spreadsheet value that holds markup characters never appears in a
\* card's HTML as it was written in the sheet, neither in createNewsCard's
\* card nor in createEventContent's: it is escaped before it is interpolated,
\* in element text and in attribute values alike
C16_InterpolatedValuesAreEscaped ==
  vOut.done =>
    \A field \in CardFields :
      (vIn.event[field].present /\ NeedsEscaping(vIn.event[field].text))
        => ~Includes(vOut.html, vIn.event[field].text)

\* a headline or description carries usable content when it is a text that is
\* not blank, a link when processLink keeps it
UsableText(cell) == Truthy(cell) /\ trim(cell.text) # ""

UsableLink(cell) == processLink(cell) # ""

CarriesContent(event) ==
  /\ event.object
  /\ \/ UsableText(event.headline)
     \/ UsableText(event.description)
     \/ UsableLink(event.news_link)

\* the marker of the incomplete variant
IsIncompleteCard(html) == Includes(html, "media-card incomplete-event\"")

\* C17: createNewsCard returns the incomplete-event variant exactly when none
\* of headline, description and news_link carries usable content, and a
\* normal card without the marker whenever one of them does
C17_IncompleteExactlyWithoutContent ==
  (vOut.done /\ vOut.by = "createNewsCard")
    => (IsIncompleteCard(vOut.html) <=> ~CarriesContent(vIn.event))

\* an http(s) url, in whatever case the scheme is written
IsHttpUrl(url) == url.shape = "url" /\ toLowerCase(url.scheme) \in Schemes

\* a url on twitter.com or x.com: the site itself or its www host
OnTwitter(url) ==
  IsHttpUrl(url) /\ url.domain \in {"twitter.com", "x.com"} /\ url.subdomain \in {"", "www."}

\* a url on a host that no social pattern touches, with nothing social in it
OnPlainHost(url) ==
  /\ IsHttpUrl(url)
  /\ url.domain \in {"example-news.com", "elpais.com"}
  /\ url.tail \in {"", "/", "/user/status/1", "?ref=1"}

NotHttp(url) ==
  \/ url.value.type # "string"
  \/ ~\E scheme \in Schemes : StartsWith(trim(toLowerCase(url.value.text)), scheme)

\* C18: detectMediaType always returns one of the six tags; twitter for an
\* http(s) url on twitter.com or x.com, news for an http(s) url on a host that
\* is not social, unknown for what is empty, not a string or not http(s)
C18_DetectMediaTypeTags ==
  vOut.done =>
    /\ vOut.type \in MEDIA_TYPES
    /\ OnTwitter(vIn.url) => vOut.type = "twitter"
    /\ OnPlainHost(vIn.url) => vOut.type = "news"
    /\ NotHttp(vIn.url) => vOut.type = "unknown"

SocialTypes == {"twitter", "youtube", "facebook", "instagram"}

\* C19: an http(s) url that is not classified as Twitter/X, YouTube, Facebook
\* or Instagram and whose host is on no social domain is classified as news,
\* whatever its path holds and however its host is spelled
C19_OtherHttpUrlsAreNews ==
  (/\ vOut.done
   /\ IsHttpUrl(vIn.url)
   /\ vIn.url.domain \notin SocialDomains
   /\ vOut.type \notin SocialTypes)
    => vOut.type = "news"

\* the shown text without the ellipsis that marks a cut
EndsWithEllipsis(shown) == Len(shown) >= 3 /\ SubSeq(shown, Len(shown) - 2, Len(shown)) = "..."

BeforeEllipsis(shown) ==
  IF EndsWithEllipsis(shown) THEN SubSeq(shown, 1, Len(shown) - 3) ELSE shown

IsLetter(c) == c \notin {" ", "."}

\* a cut after n characters is in the middle of a word when the characters on
\* both sides of it are letters
MidWord(text, n) ==
  /\ 0 < n /\ n < Len(text)
  /\ IsLetter(SubSeq(text, n, n))
  /\ IsLetter(SubSeq(text, n + 1, n + 1))

\* C20: a description longer than the limit is shown cut at the end of a
\* sentence or at a word boundary, never in the middle of a word, with at most
\* limit + 1 characters before the ellipsis; a description within the limit
\* is shown in full (blanks at its ends aside)
C20_TruncationAtBoundary ==
  vOut.done =>
    LET text == vIn.description.text
        kept == BeforeEllipsis(vOut.shown)
    IN IF Len(text) > vOut.limit
       THEN /\ kept = SubSeq(text, 1, Len(kept))
            /\ Len(kept) <= vOut.limit + 1
            /\ ~MidWord(text, Len(kept))
       ELSE trim(vOut.shown) = trim(text)

\* the parser outcomes with which a project load succeeds and at least one
\* row's date parses
MappableOutcomes ==
  {parsed \in TimelineOutcomes \ FailedTimelineOutcomes :
     \E i \in 1..Len(parsed.rows) : dateParses(parsed.rows[i])}

\* C21 (as claimed): every continuation of a project load whose fetch succeeds
\* with at least one row whose date parses ends with the timeline displaying
\* exactly the mapper's items for that sheet, one per such row.
C21_RowsAreMappedBeforeRendering ==
  [][\A p \in ProjectIds : \A parsed \in MappableOutcomes :
       ResumeStep(p, parsed)
         => DisplayedItems([dom |-> dom', ren |-> ren'])
              = Range(transformToTimelineFormat(p, parsed.rows))]_vars

\* parseDate succeeds on the row's date_announced, whatever the engine
HasParseableDate(event) ==
  /\ event.date_announced.present
  /\ \A engine \in Engines : parseDate(engine, event.date_announced.text).ok

\* the card carries the media type detectMediaType gives the row's link
CarriesMediaType(html, event) ==
  LET link == processLink(event.news_link)
      mediaType == IF link # "" THEN detectMediaType(StringValue(link)) ELSE "unknown"
  IN Includes(html, "media-card media-" \o mediaType \o "\"")

\* C22 (as claimed): for a row whose date parses, the content the mapper
\* gives the item (createEventContent) is the card createNewsCard makes of the
\* row: the incomplete-event variant when no field carries usable content,
\* and otherwise a card that carries the row's media type.
C22_MapperContentIsTheCard ==
  (vOut.done /\ vOut.by = "createEventContent" /\ HasParseableDate(vIn.event))
    => /\ vOut.html = createNewsCard(vIn.event)
       /\ IF CarriesContent(vIn.event)
          THEN CarriesMediaType(vOut.html, vIn.event)
          ELSE IsIncompleteCard(vOut.html)

\* C23 (as claimed): after any sequence of updateData calls the renderer's
\* dataset holds exactly the valid items of the most recent call, in order,
\* and so no item of an earlier batch.
C23_DatasetIsTheLatestBatch ==
  vIn.which = "batch" => ren.dataset = validateTimelineItems(vIn.rows)

\* id: `event_${index}`, with the index of the row in the sheet
itemId(item) == "event_" \o numberText(item.index)

\* C24: the items of one mapped batch have ids that differ from one another,
\* and every row whose date parses has its item, also when rows carry the
\* same date and when rows between them were dropped.
C24_IdsAreUnique ==
  vOut.done =>
    /\ \A k, l \in 1..Len(vOut.items) :
         k # l => itemId(vOut.items[k]) # itemId(vOut.items[l])
    /\ \A i \in ParsingRows : \E k \in 1..Len(vOut.items) : vOut.items[k].index = i - 1

\* C24 witness: rows 1, 3 and 4 carry the same date, row 2 between them was
\* dropped, and three items with three ids came back.
C24_Witness ==
  /\ vOut.done
  /\ Len(vIn.cells) = 4
  /\ vIn.cells[1] = TextCell("15/03/2024")
  /\ vIn.cells[3] = vIn.cells[1]
  /\ vIn.cells[4] = vIn.cells[1]
  /\ 2 \notin ParsingRows
  /\ Cardinality({itemId(vOut.items[k]) : k \in 1..Len(vOut.items)}) = 3

\* C25 (as claimed): whenever no fetch is in flight, the project the selector
\* holds as selected is the controller's current project, or both hold none.
C25_SelectorAgreesWithController ==
  NoFetchInFlight => sel.selectedProject = app.currentProject

\* C26 (as claimed): when refreshData comes back from reloading the directory
\* while a project is current and nothing is loading, it starts a new fetch
\* of that project's sheet.
C26_RefreshReloadsCurrentProject ==
  [][\A parsed \in DirectoryOutcomes :
       (/\ net.refresh > 0
        /\ app.currentProject # NoProject
        /\ ~app.isLoading
        /\ DirectoryStep(parsed))
         => net'.timeline[app.currentProject] = net.timeline[app.currentProject] + 1]_vars


\* C27: whenever no fetch is in flight and currentProject is null, the
\* timeline displays no project's items; a response that arrives after the
\* visitor chose 'no project' during the load is not rendered
C27_NoItemsWithoutProject ==
  (NoFetchInFlight /\ app.currentProject = NoProject) => DisplayedItems(World) = {}

\* C28: after every update that carries at least one valid item, on the
\* first batch and on every later one, the container shows the timeline
\* widget with those items; it is never left with a message written into it
\* earlier while the renderer keeps a timeline object whose DOM was replaced
C28_ValidBatchShowsTheWidget ==
  (vIn.which = "batch" /\ Len(validateTimelineItems(vIn.rows)) > 0)
    => /\ dom.container = "widget"
       /\ DisplayedItems(World) = Range(validateTimelineItems(vIn.rows))

\* C29: a failed load does not leave the failed project as currentProject,
\* so that choosing the same project again starts a new fetch instead of
\* being stopped by the same-project guard
C29_FailedProjectIsNotKept ==
  [][\A p \in ProjectIds : \A parsed \in FailedTimelineOutcomes :
       ResumeStep(p, parsed) => app'.currentProject # p]_vars

\* C30: isLoading is set only while a project's fetch is pending, and every
\* way a load ends (items, no items, renderer failure, rejected request)
\* resets it; with every request settling, a controller that is loading
\* always comes to accept a new selection
C30_LoadingFlagIsReleased ==
  /\ [](app.isLoading => ~NoFetchInFlight)
  /\ [][\A p \in ProjectIds : \A parsed \in TimelineOutcomes :
          ResumeStep(p, parsed) => ~app'.isLoading]_vars
  /\ (app.isLoading ~> ~app.isLoading)

\* a load has ended in the error state and the flag is released
C30_Witness ==
  /\ ~app.isLoading
  /\ NoFetchInFlight
  /\ app.currentProject # NoProject
  /\ dom.container = "error"
====
